---- MODULE Spec2Model ----
(***************************************************************************)
(* Model of the Binance connect / balances / order workflow implemented by *)
(* the BinanceTradingInterface component (src/route.ts, lines 53-263).     *)
(*                                                                         *)
(* The component's React state is the model's state.  Every event handler  *)
(* is one action.  An async handler is split at its fetch: the part that   *)
(* runs synchronously in the click (up to and including the call of fetch) *)
(* is the "click" action, and the continuation that runs once the gateway  *)
(* has answered is the "resolve" action.  A continuation that awaits       *)
(* response.json() changes no state between the two awaits, so the two     *)
(* awaits are one step, taken when the body has been read.                 *)
(* The gateway is the environment: each resolve action draws the outcome   *)
(* of the request from a small set of outcomes, and requests in flight are *)
(* answered in any order.                                                  *)
(*                                                                         *)
(* The model follows one mounted instance of the component.  clicks, edits *)
(* and lastEvent are history variables; lastAnswer and sameAnswer are      *)
(* history variables that only SpecTracked writes.                         *)
(*                                                                         *)
(* The page that hosts the component (TradingDashboard, src/unnamed/       *)
(* part_003) and the performance dashboard of its first tab                *)
(* (src/comprehensive-performance-dashboard.tsx) are modelled by the       *)
(* actions of SpecDashboard, over variables of their own.  The phone OTP    *)
(* verify route (src/route.ts, lines 3-26) is modelled by the actions of   *)
(* SpecOtp: one invocation of POST, split at its fetch.                    *)
(***************************************************************************)
EXTENDS Integers, Sequences, FiniteSets, TLC

\* ------------------------------------------------------------------ bounds
\* Number of button clicks (connect, refresh, order) in one behaviour.
MaxClicks == 3

\* Number of edits of an input (credentials, symbol, side, quantity) in one
\* behaviour.
MaxEdits == 4

\* Number of ticks of the clock in one behaviour.
MaxTime == 3

\* ------------------------------------------------------- input alphabets
\* Texts the user may type into the two password inputs.
ApiKeyTexts == {"", "k"}
ApiSecretTexts == {"", "s"}

\* Symbols with an item for a pair the gateway does not list.
SymbolsWithUnlistedPair == {"BTCUSDT", "ETHUSDT", "BNBUSDT", "DOGEUSDT"}

\* Items of the symbol <Select> (route.ts 213-215).
Symbols == {"BTCUSDT", "ETHUSDT", "BNBUSDT"}

\* Items of the side <Select> (route.ts 230-231).
Sides == {"BUY", "SELL"}

\* Members of the OrderData.type union (route.ts 49).
OrderTypes == {"MARKET", "LIMIT"}

\* Texts the quantity <Input> may hand to its onChange handler.
QuantityTexts == {"0.001", "", "0", "-1"}

\* Values of the two tabs (route.ts 170, 173).
TabValues == {"balances", "trading"}

\* Values of the six tabs of the page (part_003 247-252).
DashboardTabs ==
    {"performance", "strategies", "trades", "risk", "exchanges", "binance"}

\* User records the authentication screen may hand to onAuthSuccess.
UserData == {"alice", "bob"}

\* The user before any authentication: null.
NoUser == "null"

\* ------------------------------------------------------------ JS numbers
\* A JavaScript number is a record: either NaN, or a finite value held in
\* thousandths (0.001 is 1).
NaN == [t |-> "NaN", v |-> 0]

Num(milli) == [t |-> "num", v |-> milli]

\* Number.parseFloat on the texts of QuantityTexts: the empty text (and any
\* text with no numeric prefix) gives NaN.
ParseFloat(text) ==
    CASE text = "0.001" -> Num(1)
      [] text = "0"     -> Num(0)
      [] text = "-1"    -> Num(-1000)
      [] OTHER          -> NaN

\* JSON.stringify of a number: NaN is serialised as null.
JsonNumber(n) == IF n.t = "NaN" THEN [t |-> "null", v |-> 0] ELSE n

\* ------------------------------------------------------ gateway payloads
BTC == [asset |-> "BTC", free |-> "0.5", locked |-> "0.0"]

ETH == [asset |-> "ETH", free |-> "1.25", locked |-> "0.25"]

\* Balance lists a balances response may carry.
BalanceLists == {<< >>, <<BTC>>, <<ETH, BTC>>}

\* Response bodies, as response.json() sees them:
\*   invalid  - not JSON, response.json() rejects
\*   null     - the JSON value null
\*   object   - a JSON object without a balances field
\*   balances - a JSON object whose balances field is the list
Body(tag, list) == [tag |-> tag, balances |-> list]

NoBody == Body("object", << >>)

BalancesBodies ==
    {Body("invalid", << >>), Body("null", << >>), Body("object", << >>)}
        \cup {Body("balances", l) : l \in BalanceLists}

OrderBodies == {Body("invalid", << >>), Body("object", << >>)}

\* HTTP statuses the gateway answers with.
Statuses == {200, 201, 401, 500}

\* The outcome of a fetch: the promise rejects (thrown), or it resolves to
\* a response with a status and a body.
Outcome(thrown, status, body) ==
    [thrown |-> thrown, status |-> status, body |-> body]

NetworkError == Outcome(TRUE, 0, NoBody)

NoOutcome == Outcome(FALSE, 0, NoBody)

ConnectOutcomes ==
    {NetworkError} \cup {Outcome(FALSE, s, NoBody) : s \in Statuses}

BalancesOutcomes ==
    {NetworkError}
        \cup {Outcome(FALSE, s, b) : s \in {200, 500}, b \in BalancesBodies}

OrderOutcomes ==
    {NetworkError}
        \cup {Outcome(FALSE, s, b) : s \in {200, 201, 401}, b \in OrderBodies}

\* Response.ok of the Fetch API: the status is in the range 200-299.
ResponseOk(o) == o.status >= 200 /\ o.status <= 299

\* ------------------------------------------- the phone OTP verify route
\* A field the JSON body of the request does not have.
Undefined == "undefined"

OtpPhones == {"+15550100", Undefined}

OtpCodes == {"123456", "000000", Undefined}

\* The body of the request POST is called with:
\*   invalid - not JSON, request.json() rejects
\*   null    - the JSON value null, which cannot be destructured
\*   object  - a JSON object, with or without the fields phone and code
RequestBody(kind, phone, code) ==
    [kind |-> kind, phone |-> phone, code |-> code]

RequestBodies ==
    {RequestBody("invalid", Undefined, Undefined),
     RequestBody("null", Undefined, Undefined)}
        \cup {RequestBody("object", p, c) : p \in OtpPhones, c \in OtpCodes}

NoRequest == RequestBody("none", Undefined, Undefined)

\* const { phone, code } = await request.json() throws.
RequestThrows(body) == body.kind \in {"invalid", "null"}

\* JSON.stringify({ phone, code }): a field that is undefined is left out.
VerifyPayload(body) ==
    [f \in {g \in {"phone", "code"} : body[g] # Undefined} |-> body[f]]

\* fetch("http://localhost:8000/auth/phone/verify", {method: "POST", ...})
VerifyRequest(body) ==
    [url |-> "http://localhost:8000/auth/phone/verify", method |-> "POST",
     payload |-> VerifyPayload(body)]

\* Texts the backend may answer with.
BackendTexts ==
    {"", "Invalid code", "{\"detail\":\"expired\"}", "{\"token\":\"t1\"}"}

\* Whether response.json() can parse the text.
IsJson(text) ==
    text \in {"{\"detail\":\"expired\"}", "{\"token\":\"t1\"}"}

\* The value response.json() resolves to.
JsonValue(text) ==
    CASE text = "{\"detail\":\"expired\"}" -> [detail |-> "expired"]
      [] text = "{\"token\":\"t1\"}" -> [token |-> "t1"]

\* The body of a backend response: a stream that can be read to its end,
\* giving the text, or one that fails while it is read.
BackendBody(readable, text) == [readable |-> readable, text |-> text]

BackendBodies ==
    {BackendBody(FALSE, "")} \cup {BackendBody(TRUE, t) : t \in BackendTexts}

BackendStatuses == {200, 201, 400, 500}

\* The outcome of the fetch: it rejects (the backend is unreachable), or it
\* resolves to a response.
BackendOutcome(thrown, status, body) ==
    [thrown |-> thrown, status |-> status, body |-> body]

BackendUnreachable == BackendOutcome(TRUE, 0, BackendBody(FALSE, ""))

NoBackendOutcome == BackendOutcome(FALSE, 0, BackendBody(FALSE, ""))

BackendOutcomes ==
    {BackendUnreachable}
        \cup {BackendOutcome(FALSE, s, b) :
                  s \in BackendStatuses, b \in BackendBodies}

\* NextResponse.json(value, {status}): the response POST returns.
RouteResponse(status, json) == [status |-> status, json |-> json]

\* POST has returned nothing (yet).
NoResponse == RouteResponse(0, [error |-> ""])

\* The response of the catch block (route.ts 24).
FailedToVerify == RouteResponse(500, [error |-> "Failed to verify OTP"])

\* ------------------------------------------------------------------ state
VARIABLES
    isConnected,    \* useState(false)                       route.ts 54
    balances,       \* useState<Balance[]>([])               route.ts 55
    apiKey,         \* useState("")                          route.ts 56
    apiSecret,      \* useState("")                          route.ts 57
    loading,        \* useState(false)                       route.ts 58
    orderData,      \* useState<OrderData>({...})            route.ts 59-64
    activeTab,      \* the value of <Tabs defaultValue="balances">
    inflight,       \* requests sent and not yet answered, in order of issue
    log,            \* the console lines written by the handler that ran last
    clicks,         \* number of button clicks so far
    edits,          \* number of input edits so far
    lastEvent,      \* the name of the handler that ran last
    lastAnswer,     \* SpecTracked: the answer the latest balances request got
    sameAnswer,     \* SpecTracked: whether the one before it got the same
    overtaken,      \* SpecOrdered: balances requests answered out of order
    isArabic,       \* useState(false)                   part_003 32
    isAuthenticated,\* useState(false)                   part_003 33
    user,           \* useState<any>(null)               part_003 34
    showSplash,     \* useState(true)                    part_003 35
    isSystemRunning,\* useState(true)                    part_003 36
    dashboardTab,   \* the value of <Tabs defaultValue="performance">
    isLiveMode,     \* useState(true)       performance dashboard 89
    lastUpdate,     \* useState(new Date()) performance dashboard 90
    intervals,      \* number of setInterval timers not cleared yet
    now,            \* the clock new Date() reads
    otpPc,          \* POST: "idle", "fetching" (awaiting the backend), "done"
    otpRequest,     \* POST: the body of the request it was called with
    otpFetch,       \* POST: the requests it has sent to the backend
    otpBackend,     \* POST: the outcome of its fetch
    otpResponse,    \* POST: the response it returned
    otpLog          \* POST: the console lines it wrote

\* The state of the BinanceTradingInterface component and its history.
binanceVars ==
    <<isConnected, balances, apiKey, apiSecret, loading, orderData,
      activeTab, inflight, log, clicks, edits, lastEvent, lastAnswer,
      sameAnswer, overtaken>>

\* The state of the TradingDashboard page.
pageVars ==
    <<isArabic, isAuthenticated, user, showSplash, isSystemRunning,
      dashboardTab>>

\* The state of the ComprehensivePerformanceDashboard component, its timers
\* and the clock.
perfVars == <<isLiveMode, lastUpdate, intervals, now>>

\* The state of one invocation of the phone OTP verify route.
otpVars ==
    <<otpPc, otpRequest, otpFetch, otpBackend, otpResponse, otpLog>>

\* What the handlers of BinanceTradingInterface cannot write.
otherVars == <<pageVars, perfVars, otpVars>>

vars == <<binanceVars, pageVars, perfVars, otpVars>>

\* The user identifier every call passes (route.ts 72, 87, 103).
UserId == "default"

\* A request in flight: its endpoint, method and payload (the JSON body of a
\* POST, the query parameters of a GET).
Request(endpoint, method, payload) ==
    [endpoint |-> endpoint, method |-> method, payload |-> payload]

\* The sequence s without its i-th element.
RemoveAt(s, i) == SubSeq(s, 1, i - 1) \o SubSeq(s, i + 1, Len(s))

\* fetch("/api/binance/connect", {method: "POST", body: JSON.stringify(...)})
ConnectRequest ==
    Request("/api/binance/connect", "POST",
            [api_key |-> apiKey, api_secret |-> apiSecret, user_id |-> UserId])

\* fetch("/api/binance/balances?user_id=default")
BalancesRequest ==
    Request("/api/binance/balances", "GET", [user_id |-> UserId])

\* OrderRequest with user_id left out of the body.
OrderRequestNoUser ==
    Request("/api/binance/order", "POST",
            [symbol |-> orderData.symbol, side |-> orderData.side,
             type |-> orderData.type,
             quantity |-> JsonNumber(orderData.quantity)])

\* OrderRequest built from the draft of the first render (a stale closure).
OrderRequestInitialDraft ==
    Request("/api/binance/order", "POST",
            [symbol |-> "BTCUSDT", side |-> "BUY", type |-> "MARKET",
             quantity |-> JsonNumber(Num(1)), user_id |-> UserId])

\* OrderRequest signed with the credentials of the session.
OrderRequestWithCredentials ==
    Request("/api/binance/order", "POST",
            [symbol |-> orderData.symbol, side |-> orderData.side,
             type |-> orderData.type,
             quantity |-> JsonNumber(orderData.quantity),
             user_id |-> UserId,
             api_key |-> apiKey, api_secret |-> apiSecret])

\* fetch("/api/binance/order", {body: JSON.stringify({...orderData, user_id})})
OrderRequest ==
    Request("/api/binance/order", "POST",
            [symbol |-> orderData.symbol, side |-> orderData.side,
             type |-> orderData.type,
             quantity |-> JsonNumber(orderData.quantity),
             user_id |-> UserId])

Init ==
    /\ isConnected = FALSE
    /\ balances = << >>
    /\ apiKey = ""
    /\ apiSecret = ""
    /\ loading = FALSE
    /\ orderData = [symbol |-> "BTCUSDT", side |-> "BUY", type |-> "MARKET",
                    quantity |-> Num(1)]
    /\ activeTab = "balances"
    /\ inflight = << >>
    /\ log = << >>
    /\ clicks = 0
    /\ edits = 0
    /\ lastEvent = "init"
    /\ lastAnswer = NoOutcome
    /\ sameAnswer = FALSE
    /\ overtaken = [pending |-> 0, last |-> FALSE, carried |-> FALSE,
                    list |-> << >>]
    /\ isArabic = FALSE
    /\ isAuthenticated = FALSE
    /\ user = NoUser
    /\ showSplash = TRUE
    /\ isSystemRunning = TRUE
    /\ dashboardTab = "performance"
    /\ isLiveMode = TRUE
    /\ lastUpdate = 0
    /\ intervals = 0
    /\ now = 0
    /\ otpPc = "idle"
    /\ otpRequest = NoRequest
    /\ otpFetch = << >>
    /\ otpBackend = NoBackendOutcome
    /\ otpResponse = NoResponse
    /\ otpLog = << >>

\* ------------------------------------------------------- the credentials
\* The two inputs are rendered in the !isConnected branch only.
SetApiKey(text) ==
    /\ ~isConnected
    /\ apiKey' = text
    /\ edits < MaxEdits
    /\ edits' = edits + 1
    /\ lastEvent' = "setApiKey"
    /\ log' = << >>
    /\ UNCHANGED <<isConnected, balances, apiSecret, loading, orderData,
                   activeTab, inflight, clicks, lastAnswer, sameAnswer,
                   overtaken, otherVars>>

SetApiSecret(text) ==
    /\ ~isConnected
    /\ apiSecret' = text
    /\ edits < MaxEdits
    /\ edits' = edits + 1
    /\ lastEvent' = "setApiSecret"
    /\ log' = << >>
    /\ UNCHANGED <<isConnected, balances, apiKey, loading, orderData,
                   activeTab, inflight, clicks, lastAnswer, sameAnswer,
                   overtaken, otherVars>>

\* ---------------------------------------------------------------- connect
\* ConnectButtonEnabled with the check of the secret left out.
ConnectButtonEnabledNoSecretCheck ==
    /\ ~isConnected
    /\ ~loading
    /\ apiKey # ""

\* ConnectButtonEnabled without the loading flag.
ConnectButtonEnabledWhileLoading ==
    /\ ~isConnected
    /\ apiKey # ""
    /\ apiSecret # ""

\* The connect button: rendered while !isConnected, and
\* disabled={loading || !apiKey || !apiSecret}.
ConnectButtonEnabled ==
    /\ ~isConnected
    /\ ~loading
    /\ apiKey # ""
    /\ apiSecret # ""

\* connectBinance up to its await: setLoading(true), then the fetch.
ConnectClick ==
    /\ ConnectButtonEnabled
    /\ clicks < MaxClicks
    /\ clicks' = clicks + 1
    /\ loading' = TRUE
    /\ inflight' = Append(inflight, ConnectRequest)
    /\ lastEvent' = "connectClick"
    /\ log' = << >>
    /\ UNCHANGED <<isConnected, balances, apiKey, apiSecret, orderData,
                   activeTab, edits, lastAnswer, sameAnswer,
                   overtaken, otherVars>>

\* ConnectSucceeded without the check of response.ok.
ConnectSucceededAnyResponse(o) == ~o.thrown

\* The if (response.ok) of connectBinance is taken: fetch resolved, to an ok
\* response.
ConnectSucceeded(o) == ~o.thrown /\ ResponseOk(o)

\* A console line.
LogLine(level, msg) == [level |-> level, msg |-> msg]

\* The catch block of connectBinance: only a rejected fetch reaches it.
ConnectLog(o) ==
    IF o.thrown THEN <<LogLine("error", "Connection failed:")>> ELSE << >>

\* ConnectFollowUp with fetchBalances() called twice.
ConnectFollowUpTwice(o) ==
    IF ConnectSucceeded(o) THEN <<BalancesRequest, BalancesRequest>> ELSE << >>

\* ConnectFollowUp with fetchBalances() called outside the if (response.ok).
ConnectFollowUpAlways(o) ==
    IF o.thrown THEN << >> ELSE <<BalancesRequest>>

\* The requests the continuation of connectBinance sends: fetchBalances()
\* runs up to its own fetch inside the if (response.ok) branch.
ConnectFollowUp(o) ==
    IF ConnectSucceeded(o) THEN <<BalancesRequest>> ELSE << >>

\* The continuation of connectBinance, once its fetch has settled:
\* if (response.ok) { setIsConnected(true); fetchBalances() }, the catch
\* block, and the trailing setLoading(false).
ConnectResolve(i, o) ==
    /\ i \in 1..Len(inflight)
    /\ inflight[i].endpoint = "/api/binance/connect"
    /\ isConnected' = IF ConnectSucceeded(o) THEN TRUE ELSE isConnected
    /\ inflight' = RemoveAt(inflight, i) \o ConnectFollowUp(o)
    /\ log' = ConnectLog(o)
    /\ loading' = FALSE
    /\ lastEvent' = "connectResolve"
    /\ UNCHANGED <<balances, apiKey, apiSecret, orderData, activeTab, clicks,
                   edits, lastAnswer, sameAnswer,
                   overtaken, otherVars>>

\* --------------------------------------------------------------- balances
\* The tabs are rendered in the isConnected branch only.
SelectTab(t) ==
    /\ isConnected
    /\ activeTab' = t
    /\ lastEvent' = "selectTab"
    /\ log' = << >>
    /\ UNCHANGED <<isConnected, balances, apiKey, apiSecret, loading,
                   orderData, inflight, clicks, edits, lastAnswer,
                   sameAnswer,
                   overtaken, otherVars>>

\* RefreshButtonEnabled with the tabs rendered outside the isConnected branch.
RefreshButtonEnabledWhenDisconnected == activeTab = "balances"

\* The refresh button lives in the balances tab and is never disabled.
RefreshButtonEnabled == isConnected /\ activeTab = "balances"

\* fetchBalances up to its await, called from the refresh button.
RefreshClick ==
    /\ RefreshButtonEnabled
    /\ clicks < MaxClicks
    /\ clicks' = clicks + 1
    /\ inflight' = Append(inflight, BalancesRequest)
    /\ lastEvent' = "refreshClick"
    /\ log' = << >>
    /\ UNCHANGED <<isConnected, balances, apiKey, apiSecret, loading,
                   orderData, activeTab, edits, lastAnswer, sameAnswer,
                   overtaken, otherVars>>

\* Whether the try block of fetchBalances throws: fetch rejects,
\* response.json() rejects, or data is null and data.balances throws.
BalancesThrows(o) == o.thrown \/ o.body.tag \in {"invalid", "null"}

\* The assets of a balance list.
Assets(list) == {list[k].asset : k \in 1..Len(list)}

\* BalancesAfter merging the response into the collection by asset: rows of
\* the old collection that the response does not mention are kept.
BalancesAfterMerging(old, o) ==
    IF ~BalancesThrows(o) /\ o.body.tag = "balances"
    THEN o.body.balances
             \o SelectSeq(old, LAMBDA b : b.asset \notin Assets(o.body.balances))
    ELSE old

\* BalancesAfter appending the response to the collection.
BalancesAfterAppending(old, o) ==
    IF ~BalancesThrows(o) /\ o.body.tag = "balances"
    THEN old \o o.body.balances
    ELSE old

\* BalancesAfter with setBalances(data.balances || []): a body without the
\* field empties the collection.
BalancesAfterMissingAsEmpty(old, o) ==
    IF BalancesThrows(o) THEN old
    ELSE IF o.body.tag = "balances" THEN o.body.balances
    ELSE << >>

\* The Balance collection after the continuation of fetchBalances:
\* if (data.balances) setBalances(data.balances).  The status of the
\* response is not looked at.  A list, even an empty one, is truthy.
BalancesAfter(old, o) ==
    IF ~BalancesThrows(o) /\ o.body.tag = "balances"
    THEN o.body.balances
    ELSE old

BalancesLog(o) ==
    IF BalancesThrows(o)
    THEN <<LogLine("error", "Failed to fetch balances:")>>
    ELSE << >>

\* fetchBalances with a latest-request-wins guard: the answer to a request
\* issued before one that has been answered already is dropped.
FetchBalancesLatestWins(i, o) ==
    /\ i \in 1..Len(inflight)
    /\ inflight[i].endpoint = "/api/binance/balances"
    /\ balances' =
          IF Cardinality({j \in 1..i :
                 inflight[j].endpoint = "/api/binance/balances"})
                 <= overtaken.pending
          THEN balances
          ELSE BalancesAfter(balances, o)
    /\ log' = BalancesLog(o)
    /\ inflight' = RemoveAt(inflight, i)
    /\ lastEvent' = "balancesResolve"
    /\ UNCHANGED <<isConnected, apiKey, apiSecret, loading, orderData,
                   activeTab, clicks, edits, otherVars>>

\* The continuation of fetchBalances, once the body has been read.
FetchBalancesContinuation(i, o) ==
    /\ i \in 1..Len(inflight)
    /\ inflight[i].endpoint = "/api/binance/balances"
    /\ balances' = BalancesAfter(balances, o)
    /\ log' = BalancesLog(o)
    /\ inflight' = RemoveAt(inflight, i)
    /\ lastEvent' = "balancesResolve"
    /\ UNCHANGED <<isConnected, apiKey, apiSecret, loading, orderData,
                   activeTab, clicks, edits, otherVars>>

BalancesResolve(i, o) ==
    /\ FetchBalancesContinuation(i, o)
    /\ UNCHANGED <<lastAnswer, sameAnswer, overtaken>>

\* The same continuation, with the answer it saw remembered.
BalancesResolveTracked(i, o) ==
    /\ FetchBalancesContinuation(i, o)
    /\ lastAnswer' = o
    /\ sameAnswer' = (o = lastAnswer)
    /\ UNCHANGED overtaken

\* The rank of request i among the balances requests in flight: 1 for the
\* one issued first.
BalancesRank(i) ==
    Cardinality({j \in 1..i : inflight[j].endpoint = "/api/binance/balances"})

\* The same continuation, with the order of the answers and the list of
\* the last one remembered in overtaken:
\*   pending - the first so many balances requests in flight were issued
\*             before a balances request that has been answered already
\*   last    - the request answered last was one of those
\*   carried - the answer read last was a response with a balances list
\*   list    - that list
BalancesResolveOrdered(i, o) ==
    /\ FetchBalancesContinuation(i, o)
    /\ overtaken' =
          [pending |-> IF BalancesRank(i) <= overtaken.pending
                       THEN overtaken.pending - 1
                       ELSE BalancesRank(i) - 1,
           last    |-> BalancesRank(i) <= overtaken.pending,
           carried |-> (~o.thrown /\ o.body.tag = "balances"),
           list    |-> IF ~o.thrown /\ o.body.tag = "balances"
                       THEN o.body.balances ELSE << >>]
    /\ UNCHANGED <<lastAnswer, sameAnswer>>

\* ------------------------------------------------------- the balance rows
\* Number.parseFloat on the decimal strings of the balances, as a count of
\* units of 10^-8 (0.5 is 50000000).
ParseDecimal(text) ==
    CASE text = "0.5"  -> 50000000
      [] text = "0.0"  -> 0
      [] text = "1.25" -> 125000000
      [] text = "0.25" -> 25000000

\* The argument of toFixed (route.ts 186, 189).
FractionDigits == 8

RECURSIVE Pow10(_)
Pow10(k) == IF k = 0 THEN 1 ELSE 10 * Pow10(k - 1)

Digit(d) ==
    CASE d = 0 -> "0" [] d = 1 -> "1" [] d = 2 -> "2" [] d = 3 -> "3"
      [] d = 4 -> "4" [] d = 5 -> "5" [] d = 6 -> "6" [] d = 7 -> "7"
      [] d = 8 -> "8" [] d = 9 -> "9"

\* The decimal digits of a natural number, most significant first.
RECURSIVE IntDigits(_)
IntDigits(n) ==
    IF n < 10 THEN <<Digit(n)>> ELSE Append(IntDigits(n \div 10), Digit(n % 10))

\* The last k decimal digits of n, with leading zeros.
RECURSIVE LastDigits(_, _)
LastDigits(n, k) ==
    IF k = 0 THEN << >>
    ELSE Append(LastDigits(n \div 10, k - 1), Digit(n % 10))

\* toFixed that keeps two fraction digits whatever it is asked for.
ToFixedTwoPlaces(units, digits) ==
    LET scaled == (units + (Pow10(6) \div 2)) \div Pow10(6)
    IN  IntDigits(scaled \div Pow10(2))
            \o <<".">> \o LastDigits(scaled % Pow10(2), 2)

\* Number.prototype.toFixed(digits) of a non-negative number given in units
\* of 10^-8, as the sequence of its characters: rounded half up to the
\* digits asked for, integer part, point, fraction.
ToFixed(units, digits) ==
    LET scaled == (units + (Pow10(8 - digits) \div 2)) \div Pow10(8 - digits)
    IN  IntDigits(scaled \div Pow10(digits))
            \o <<".">> \o LastDigits(scaled % Pow10(digits), digits)

\* One row of the balances tab: the asset, the free amount, and the locked
\* amount when it is greater than zero (<< >> when the line is not rendered).
BalanceRow(balance) ==
    [asset |-> balance.asset,
     free |-> ToFixed(ParseDecimal(balance.free), FractionDigits),
     locked |-> IF ParseDecimal(balance.locked) > 0
                THEN ToFixed(ParseDecimal(balance.locked), FractionDigits)
                ELSE << >>]

\* balances.map(...) of the balances tab, in the order of the collection.
BalanceRows == [k \in 1..Len(balances) |-> BalanceRow(balances[k])]

\* ------------------------------------------------------------------ order
\* The order form lives in the trading tab.
OrderFormShown == isConnected /\ activeTab = "trading"

\* SetSymbol writing a fresh draft instead of spreading the current one.
SetSymbolResettingDraft(value) ==
    /\ OrderFormShown
    /\ orderData' = [symbol |-> value, side |-> "BUY", type |-> "MARKET",
                     quantity |-> Num(1)]
    /\ edits < MaxEdits
    /\ edits' = edits + 1
    /\ lastEvent' = "setSymbol"
    /\ log' = << >>
    /\ UNCHANGED <<isConnected, balances, apiKey, apiSecret, loading,
                   activeTab, inflight, clicks, lastAnswer, sameAnswer,
                   overtaken, otherVars>>

SetSymbol(value) ==
    /\ OrderFormShown
    /\ orderData' = [orderData EXCEPT !.symbol = value]
    /\ edits < MaxEdits
    /\ edits' = edits + 1
    /\ lastEvent' = "setSymbol"
    /\ log' = << >>
    /\ UNCHANGED <<isConnected, balances, apiKey, apiSecret, loading,
                   activeTab, inflight, clicks, lastAnswer, sameAnswer,
                   overtaken, otherVars>>

\* SetSide with a side Select that also switches the order type.
SetSideSwitchingType(value) ==
    /\ OrderFormShown
    /\ orderData' = [orderData EXCEPT !.side = value, !.type = "LIMIT"]
    /\ edits < MaxEdits
    /\ edits' = edits + 1
    /\ lastEvent' = "setSide"
    /\ log' = << >>
    /\ UNCHANGED <<isConnected, balances, apiKey, apiSecret, loading,
                   activeTab, inflight, clicks, lastAnswer, sameAnswer,
                   overtaken, otherVars>>

SetSide(value) ==
    /\ OrderFormShown
    /\ orderData' = [orderData EXCEPT !.side = value]
    /\ edits < MaxEdits
    /\ edits' = edits + 1
    /\ lastEvent' = "setSide"
    /\ log' = << >>
    /\ UNCHANGED <<isConnected, balances, apiKey, apiSecret, loading,
                   activeTab, inflight, clicks, lastAnswer, sameAnswer,
                   overtaken, otherVars>>

SetQuantity(text) ==
    /\ OrderFormShown
    /\ orderData' = [orderData EXCEPT !.quantity = ParseFloat(text)]
    /\ edits < MaxEdits
    /\ edits' = edits + 1
    /\ lastEvent' = "setQuantity"
    /\ log' = << >>
    /\ UNCHANGED <<isConnected, balances, apiKey, apiSecret, loading,
                   activeTab, inflight, clicks, lastAnswer, sameAnswer,
                   overtaken, otherVars>>

\* OrderButtonEnabled with the button rendered outside the isConnected branch.
OrderButtonEnabledWhenDisconnected == ~loading

\* OrderButtonEnabled with the quantity validated before submit.
OrderButtonEnabledValidating ==
    /\ OrderFormShown
    /\ ~loading
    /\ orderData.quantity.t = "num"
    /\ orderData.quantity.v > 0

\* OrderButtonEnabled without the disabled={loading} attribute.
OrderButtonEnabledWhileLoading == OrderFormShown

\* The order button: disabled={loading}.
OrderButtonEnabled == OrderFormShown /\ ~loading

\* placeOrder up to its await: setLoading(true), then the fetch.
PlaceOrderClick ==
    /\ OrderButtonEnabled
    /\ clicks < MaxClicks
    /\ clicks' = clicks + 1
    /\ loading' = TRUE
    /\ inflight' = Append(inflight, OrderRequest)
    /\ lastEvent' = "placeOrderClick"
    /\ log' = << >>
    /\ UNCHANGED <<isConnected, balances, apiKey, apiSecret, orderData,
                   activeTab, edits, lastAnswer, sameAnswer,
                   overtaken, otherVars>>

\* The if (response.ok) branch of placeOrder runs to its end: the response
\* is ok and response.json() does not reject.
OrderPlaced(o) == ~o.thrown /\ ResponseOk(o) /\ o.body.tag # "invalid"

\* The try block of placeOrder throws: fetch rejects, or the response is ok
\* and response.json() rejects.
OrderThrows(o) == o.thrown \/ (ResponseOk(o) /\ o.body.tag = "invalid")

OrderLog(o) ==
    IF OrderThrows(o) THEN <<LogLine("error", "Order failed:")>>
    ELSE IF OrderPlaced(o) THEN <<LogLine("log", "Order placed:")>>
    ELSE << >>

\* OrderFollowUp with fetchBalances() called outside the if (response.ok).
OrderFollowUpAlways(o) == <<BalancesRequest>>

\* The requests the continuation of placeOrder sends: fetchBalances() after
\* console.log("Order placed:", result).
OrderFollowUp(o) ==
    IF OrderPlaced(o) THEN <<BalancesRequest>> ELSE << >>

\* OrderResolve with a failed order dropping the connection.
OrderResolveDisconnecting(i, o) ==
    /\ i \in 1..Len(inflight)
    /\ inflight[i].endpoint = "/api/binance/order"
    /\ isConnected' = (IF OrderPlaced(o) THEN isConnected ELSE FALSE)
    /\ inflight' = RemoveAt(inflight, i) \o OrderFollowUp(o)
    /\ log' = OrderLog(o)
    /\ loading' = FALSE
    /\ lastEvent' = "orderResolve"
    /\ UNCHANGED <<balances, apiKey, apiSecret, orderData, activeTab, clicks,
                   edits, lastAnswer, sameAnswer,
                   overtaken, otherVars>>

\* OrderResolve with setLoading(false) inside the try block: skipped when
\* the block throws.
OrderResolveLoadingInTry(i, o) ==
    /\ i \in 1..Len(inflight)
    /\ inflight[i].endpoint = "/api/binance/order"
    /\ inflight' = RemoveAt(inflight, i) \o OrderFollowUp(o)
    /\ log' = OrderLog(o)
    /\ loading' = (IF OrderThrows(o) THEN loading ELSE FALSE)
    /\ lastEvent' = "orderResolve"
    /\ UNCHANGED <<isConnected, balances, apiKey, apiSecret, orderData,
                   activeTab, clicks, edits, lastAnswer, sameAnswer,
                   overtaken, otherVars>>

\* The continuation of placeOrder, once its fetch has settled (and, for an
\* ok response, the body has been read), with the trailing setLoading(false).
OrderResolve(i, o) ==
    /\ i \in 1..Len(inflight)
    /\ inflight[i].endpoint = "/api/binance/order"
    /\ inflight' = RemoveAt(inflight, i) \o OrderFollowUp(o)
    /\ log' = OrderLog(o)
    /\ loading' = FALSE
    /\ lastEvent' = "orderResolve"
    /\ UNCHANGED <<isConnected, balances, apiKey, apiSecret, orderData,
                   activeTab, clicks, edits, lastAnswer, sameAnswer,
                   overtaken, otherVars>>

\* ------------------------------------------------ the page and its gates
\* What TradingDashboard renders: the splash screen while showSplash, then
\* the authentication screen until isAuthenticated, then the dashboard
\* (part_003 101-117).
Screen(splash, authenticated) ==
    IF splash THEN "splash"
    ELSE IF ~authenticated THEN "auth"
    ELSE "dashboard"

\* Whether ComprehensivePerformanceDashboard is rendered: the dashboard is
\* shown and the performance tab is the active one (part_003 256-258).
PerfShown(splash, authenticated, tab) ==
    Screen(splash, authenticated) = "dashboard" /\ tab = "performance"

PerfMounted == PerfShown(showSplash, isAuthenticated, dashboardTab)

\* The timers the effect starts when it runs with this value of isLiveMode
\* (performance dashboard 93-96).
IntervalsStarted(live) == IF live THEN 1 ELSE 0

\* The effect with its cleanup function left out.
IntervalsClearedNever(live) == 0

\* The timers the cleanup of the effect clears, the effect having run with
\* this value of isLiveMode (performance dashboard 98): a cleanup is
\* returned only from the isLiveMode branch.
IntervalsCleared(live) == IF live THEN 1 ELSE 0

\* The commit of a render of the page, for the performance dashboard: it is
\* mounted (fresh state, the effect runs), unmounted (the cleanup runs, the
\* state is dropped) or left as it is.
PerfCommit(shown) ==
    /\ isLiveMode' = (IF shown = PerfMounted THEN isLiveMode ELSE TRUE)
    /\ lastUpdate' = (IF shown = PerfMounted THEN lastUpdate
                      ELSE IF shown THEN now ELSE 0)
    /\ intervals' = (IF shown = PerfMounted THEN intervals
                     ELSE IF shown THEN intervals + IntervalsStarted(TRUE)
                     ELSE intervals - IntervalsCleared(isLiveMode))
    /\ now' = now

\* onLogin and onRegister of the splash screen: setShowSplash(false).
DismissSplash ==
    /\ Screen(showSplash, isAuthenticated) = "splash"
    /\ showSplash' = FALSE
    /\ PerfCommit(PerfShown(FALSE, isAuthenticated, dashboardTab))
    /\ UNCHANGED <<isArabic, isAuthenticated, user, isSystemRunning,
                   dashboardTab, binanceVars, otpVars>>

\* handleAuthSuccess: setUser(userData); setIsAuthenticated(true).  The
\* authentication screen holds the callback from its first render on, that
\* is once the splash screen is gone.
HandleAuthSuccess(userData) ==
    /\ ~showSplash
    /\ user' = userData
    /\ isAuthenticated' = TRUE
    /\ PerfCommit(PerfShown(showSplash, TRUE, dashboardTab))
    /\ UNCHANGED <<isArabic, showSplash, isSystemRunning, dashboardTab,
                   binanceVars, otpVars>>

\* ToggleLanguage with a language switch that restarts the page at the
\* splash screen.
ToggleLanguageRestarting ==
    /\ Screen(showSplash, isAuthenticated) \in {"splash", "dashboard"}
    /\ isArabic' = ~isArabic
    /\ showSplash' = TRUE
    /\ PerfCommit(PerfShown(TRUE, isAuthenticated, dashboardTab))
    /\ UNCHANGED <<isAuthenticated, user, isSystemRunning, dashboardTab,
                   binanceVars, otpVars>>

\* onLanguageToggle of the splash screen and the language button of the
\* header: setIsArabic(!isArabic).
ToggleLanguage ==
    /\ Screen(showSplash, isAuthenticated) \in {"splash", "dashboard"}
    /\ isArabic' = ~isArabic
    /\ UNCHANGED <<isAuthenticated, user, showSplash, isSystemRunning,
                   dashboardTab, perfVars, binanceVars, otpVars>>

\* The start/stop button of the header: setIsSystemRunning(!isSystemRunning).
ToggleSystem ==
    /\ Screen(showSplash, isAuthenticated) = "dashboard"
    /\ isSystemRunning' = ~isSystemRunning
    /\ UNCHANGED <<isArabic, isAuthenticated, user, showSplash, dashboardTab,
                   perfVars, binanceVars, otpVars>>

\* A trigger of the page's tabs: the content of the tab left is unmounted,
\* the content of the tab entered is mounted.
SelectDashboardTab(t) ==
    /\ Screen(showSplash, isAuthenticated) = "dashboard"
    /\ t # dashboardTab
    /\ dashboardTab' = t
    /\ PerfCommit(PerfShown(showSplash, isAuthenticated, t))
    /\ UNCHANGED <<isArabic, isAuthenticated, user, showSplash,
                   isSystemRunning, binanceVars, otpVars>>

\* ------------------------------------------- the performance dashboard
\* The live-mode button: setIsLiveMode(!isLiveMode); isLiveMode being the
\* dependency of the effect, the commit runs the cleanup of the last run
\* and then the effect again.
ToggleLiveMode ==
    /\ PerfMounted
    /\ isLiveMode' = ~isLiveMode
    /\ intervals' = (intervals - IntervalsCleared(isLiveMode))
                        + IntervalsStarted(~isLiveMode)
    /\ UNCHANGED <<lastUpdate, now, pageVars, binanceVars, otpVars>>

\* The refresh button: setLastUpdate(new Date()).  The effect does not run.
ManualRefresh ==
    /\ PerfMounted
    /\ lastUpdate' = now
    /\ UNCHANGED <<isLiveMode, intervals, now, pageVars, binanceVars, otpVars>>

\* The callback of a timer: setLastUpdate(new Date()).
IntervalFires ==
    /\ intervals >= 1
    /\ lastUpdate' = now
    /\ UNCHANGED <<isLiveMode, intervals, now, pageVars, binanceVars, otpVars>>

\* Time passes.
Tick ==
    /\ now < MaxTime
    /\ now' = now + 1
    /\ UNCHANGED <<isLiveMode, lastUpdate, intervals, pageVars, binanceVars,
                   otpVars>>

\* ------------------------------------------- the phone OTP verify route
\* The console line of the catch block (route.ts 23).
VerifyErrorLog == <<LogLine("error", "Phone OTP verify error:")>>

\* POST up to its fetch: the body is parsed and destructured; when that
\* throws the catch block answers, otherwise the backend is called.
Post(body) ==
    /\ otpPc = "idle"
    /\ otpRequest' = body
    /\ otpPc' = (IF RequestThrows(body) THEN "done" ELSE "fetching")
    /\ otpFetch' =
          (IF RequestThrows(body) THEN << >> ELSE <<VerifyRequest(body)>>)
    /\ otpResponse' = (IF RequestThrows(body) THEN FailedToVerify
                       ELSE otpResponse)
    /\ otpLog' = (IF RequestThrows(body) THEN VerifyErrorLog ELSE << >>)
    /\ UNCHANGED <<otpBackend, binanceVars, pageVars, perfVars>>

\* Whether the rest of the try block throws: fetch rejects, the body of a
\* non-ok response cannot be read as text, or the body of an ok response
\* cannot be read as JSON.
PostThrows(o) ==
    \/ o.thrown
    \/ ~o.body.readable
    \/ (ResponseOk(o) /\ ~IsJson(o.body.text))

\* PostResponse with the status of the backend passed on for an ok response
\* too.
PostResponseSameStatus(o) ==
    IF PostThrows(o) THEN FailedToVerify
    ELSE IF ~ResponseOk(o)
         THEN RouteResponse(o.status, [error |-> o.body.text])
    ELSE RouteResponse(o.status, JsonValue(o.body.text))

\* PostResponse with response.text() read outside the try block: its
\* rejection escapes POST, which returns no response.
PostResponseTextOutsideTry(o) ==
    IF ~o.thrown /\ ~ResponseOk(o) /\ ~o.body.readable THEN NoResponse
    ELSE IF PostThrows(o) THEN FailedToVerify
    ELSE IF ~ResponseOk(o)
         THEN RouteResponse(o.status, [error |-> o.body.text])
    ELSE RouteResponse(200, JsonValue(o.body.text))

\* The response POST returns once its fetch has settled (route.ts 15-24).
PostResponse(o) ==
    IF PostThrows(o) THEN FailedToVerify
    ELSE IF ~ResponseOk(o)
         THEN RouteResponse(o.status, [error |-> o.body.text])
    ELSE RouteResponse(200, JsonValue(o.body.text))

\* The continuation of POST, once its fetch has settled and the body has
\* been read.
BackendSettles(o) ==
    /\ otpPc = "fetching"
    /\ otpBackend' = o
    /\ otpResponse' = PostResponse(o)
    /\ otpLog' = (IF PostThrows(o) THEN VerifyErrorLog ELSE << >>)
    /\ otpPc' = "done"
    /\ UNCHANGED <<otpRequest, otpFetch, binanceVars, pageVars, perfVars>>

\* ---------------------------------------------------------- specification
\* Every step but the continuation of fetchBalances.
OtherStep ==
    \/ \E text \in ApiKeyTexts : SetApiKey(text)
    \/ \E text \in ApiSecretTexts : SetApiSecret(text)
    \/ ConnectClick
    \/ \E i \in 1..Len(inflight), o \in ConnectOutcomes : ConnectResolve(i, o)
    \/ \E t \in TabValues : SelectTab(t)
    \/ RefreshClick
    \/ \E value \in Symbols : SetSymbol(value)
    \/ \E value \in Sides : SetSide(value)
    \/ \E text \in QuantityTexts : SetQuantity(text)
    \/ PlaceOrderClick
    \/ \E i \in 1..Len(inflight), o \in OrderOutcomes : OrderResolve(i, o)

Next ==
    \/ OtherStep
    \/ \E i \in 1..Len(inflight), o \in BalancesOutcomes : BalancesResolve(i, o)

Spec == Init /\ [][Next]_vars

\* The same program, remembering the answers of the balances requests.
NextTracked ==
    \/ OtherStep
    \/ \E i \in 1..Len(inflight), o \in BalancesOutcomes :
          BalancesResolveTracked(i, o)

SpecTracked == Init /\ [][NextTracked]_vars

\* The same program, remembering the order in which the balances requests
\* are answered.
NextOrdered ==
    \/ OtherStep
    \/ \E i \in 1..Len(inflight), o \in BalancesOutcomes :
          BalancesResolveOrdered(i, o)

SpecOrdered == Init /\ [][NextOrdered]_vars

\* The page and the performance dashboard of its first tab.
NextDashboard ==
    \/ DismissSplash
    \/ \E userData \in UserData : HandleAuthSuccess(userData)
    \/ ToggleLanguage
    \/ ToggleSystem
    \/ \E t \in DashboardTabs : SelectDashboardTab(t)
    \/ ToggleLiveMode
    \/ ManualRefresh
    \/ IntervalFires
    \/ Tick

SpecDashboard == Init /\ [][NextDashboard]_vars

\* One invocation of the phone OTP verify route.
NextOtp ==
    \/ \E body \in RequestBodies : Post(body)
    \/ \E o \in BackendOutcomes : BackendSettles(o)

SpecOtp == Init /\ [][NextOtp]_vars

TypeOK ==
    /\ isConnected \in BOOLEAN
    /\ loading \in BOOLEAN
    /\ apiKey \in ApiKeyTexts
    /\ apiSecret \in ApiSecretTexts
    /\ balances \in BalanceLists
    /\ orderData.symbol \in Symbols
    /\ orderData.side \in Sides
    /\ orderData.type \in OrderTypes
    /\ orderData.quantity \in {ParseFloat(text) : text \in QuantityTexts}
    /\ activeTab \in TabValues
    /\ \A k \in 1..Len(inflight) :
          inflight[k].endpoint \in {"/api/binance/connect",
                                    "/api/binance/balances",
                                    "/api/binance/order"}
    /\ Len(log) <= 1
    /\ sameAnswer \in BOOLEAN
    /\ overtaken.pending \in 0..MaxClicks
    /\ overtaken.last \in BOOLEAN
    /\ clicks \in 0..MaxClicks
    /\ edits \in 0..MaxEdits

\* ----------------------------------------------------------- the claims
\* Vocabulary of the claims, stated on the gateway's answer itself.
HttpSuccess(o) == ~o.thrown /\ o.status \in 200..299

\* Every resolve action names itself in lastEvent, so a step that is one has
\* lastEvent' equal to that name; the claims look at those steps only.

\* Number of requests in flight to an endpoint.
CountEndpoint(s, endpoint) ==
    Cardinality({k \in 1..Len(s) : s[k].endpoint = endpoint})

ConnectsInFlight(s) == CountEndpoint(s, "/api/binance/connect")

BalancesInFlight(s) == CountEndpoint(s, "/api/binance/balances")

OrdersInFlight(s) == CountEndpoint(s, "/api/binance/order")

\* C1: every connect request in flight carries a non-empty api_key and a
\* non-empty api_secret: the connect button is disabled, and no connect
\* request is sent, while either credential field is the empty string.
C1_ConnectNeedsBothCredentials ==
    \A k \in 1..Len(inflight) :
        inflight[k].endpoint = "/api/binance/connect"
            => /\ inflight[k].payload.api_key # ""
               /\ inflight[k].payload.api_secret # ""

\* A connect request is in flight, sent with both credentials typed in.
C1_Witness ==
    \E k \in 1..Len(inflight) :
        /\ inflight[k].endpoint = "/api/binance/connect"
        /\ inflight[k].payload.api_key = "k"
        /\ inflight[k].payload.api_secret = "s"

\* C2: a step in which a connect request is answered with HTTP success
\* leaves the status Connected and sends exactly one balances request (and
\* no other request).
C2_ConnectSuccessFetchesOnce ==
    [][lastEvent' = "connectResolve" =>
       \A i \in 1..Len(inflight), o \in ConnectOutcomes :
          (HttpSuccess(o) /\ ConnectResolve(i, o))
              => /\ isConnected'
                 /\ BalancesInFlight(inflight') = BalancesInFlight(inflight) + 1
                 /\ ConnectsInFlight(inflight') = ConnectsInFlight(inflight) - 1
                 /\ OrdersInFlight(inflight') = OrdersInFlight(inflight)]_vars

\* The connect has just succeeded: Connected, its balances request in flight.
C2_Witness ==
    /\ lastEvent = "connectResolve"
    /\ isConnected
    /\ inflight = <<BalancesRequest>>

\* C3: a step in which an order request is answered with HTTP success (any
\* 2xx, whatever the body) sends exactly one balances request, whatever the
\* side of the order.
C3_OrderSuccessRefreshesOnce ==
    [][lastEvent' = "orderResolve" =>
       \A i \in 1..Len(inflight), o \in OrderOutcomes :
          (HttpSuccess(o) /\ OrderResolve(i, o))
              => BalancesInFlight(inflight') = BalancesInFlight(inflight) + 1]_vars

\* A refreshBalances call fails: network error, non-2xx response, or a body
\* that cannot be parsed.
RefreshFailed(o) ==
    o.thrown \/ o.status \notin 200..299 \/ o.body.tag = "invalid"

\* C4: a step in which a balances request fails leaves the Balance
\* collection as it was.
C4_FailedRefreshKeepsBalances ==
    [][lastEvent' = "balancesResolve" =>
       \A i \in 1..Len(inflight), o \in BalancesOutcomes :
          (RefreshFailed(o) /\ BalancesResolve(i, o))
              => balances' = balances]_vars

\* C5: a step that sends an order request starts in a state where the
\* session is Connected.
C5_OrderOnlyWhenConnected ==
    [][OrdersInFlight(inflight') > OrdersInFlight(inflight) => isConnected]_vars

\* An order request is in flight.
C5_Witness ==
    /\ isConnected
    /\ OrdersInFlight(inflight) = 1
    /\ lastEvent = "placeOrderClick"

\* C6: once Connected, the status stays Connected across every step.
C6_ConnectedForever == [][isConnected => isConnected']_vars

\* Still Connected right after an order has failed.
C6_Witness ==
    /\ isConnected
    /\ lastEvent = "orderResolve"
    /\ log = <<LogLine("error", "Order failed:")>>

\* C7: a step in which a connect request fails (network error or non-2xx
\* response) leaves the status Disconnected, sends no balances request and
\* no further connect request, and leaves the credentials, the Balance
\* collection and the order draft as they were.
C7_FailedConnectChangesNothing ==
    [][lastEvent' = "connectResolve" =>
       \A i \in 1..Len(inflight), o \in ConnectOutcomes :
          (~HttpSuccess(o) /\ ConnectResolve(i, o))
              => /\ ~isConnected /\ ~isConnected'
                 /\ BalancesInFlight(inflight') = BalancesInFlight(inflight)
                 /\ ConnectsInFlight(inflight') = ConnectsInFlight(inflight) - 1
                 /\ OrdersInFlight(inflight') = OrdersInFlight(inflight)
                 /\ apiKey' = apiKey /\ apiSecret' = apiSecret
                 /\ balances' = balances
                 /\ orderData' = orderData]_vars

\* A connect has just failed: Disconnected, nothing in flight.
C7_Witness ==
    /\ lastEvent = "connectResolve"
    /\ ~isConnected
    /\ inflight = << >>
    /\ apiKey = "k" /\ apiSecret = "s"

\* C8: a step in which a connect request fails (network error or non-2xx
\* response) writes a line to the console.
C8_FailedConnectIsLogged ==
    [][lastEvent' = "connectResolve" =>
       \A i \in 1..Len(inflight), o \in ConnectOutcomes :
          (~HttpSuccess(o) /\ ConnectResolve(i, o)) => log' # << >>]_vars

\* C9: a step in which a balances request is answered with HTTP success and
\* a body that carries a balances list leaves the Balance collection equal
\* to that list, in the order received.
C9_RefreshReplacesBalances ==
    [][lastEvent' = "balancesResolve" =>
       \A i \in 1..Len(inflight), o \in BalancesOutcomes :
          (HttpSuccess(o) /\ o.body.tag = "balances" /\ BalancesResolve(i, o))
              => balances' = o.body.balances]_vars

\* A second refresh has been answered and the collection is the one row of
\* its response.
C9_Witness ==
    /\ lastEvent = "balancesResolve"
    /\ clicks >= 2
    /\ balances = <<BTC>>

\* C10: a step in which a balances request receives the answer that the
\* refreshBalances before it received leaves the Balance collection as that
\* earlier call left it (no other handler writes the collection): the same
\* answer twice in sequence adds and duplicates nothing.
C10_RefreshIdempotent ==
    [][lastEvent' = "balancesResolve" =>
       \A i \in 1..Len(inflight), o \in BalancesOutcomes :
          (o = lastAnswer /\ BalancesResolveTracked(i, o))
              => balances' = balances]_vars

\* Two refreshBalances calls in a row have received the same list.
C10_Witness ==
    /\ lastEvent = "balancesResolve"
    /\ sameAnswer
    /\ lastAnswer = Outcome(FALSE, 200, Body("balances", <<ETH, BTC>>))
    /\ balances = <<ETH, BTC>>

\* C11: a step in which an order request fails (network error or non-2xx
\* response) sends no balances request and leaves the order draft as it was,
\* so the same order can be submitted again.
C11_FailedOrderKeepsDraft ==
    [][lastEvent' = "orderResolve" =>
       \A i \in 1..Len(inflight), o \in OrderOutcomes :
          (~HttpSuccess(o) /\ OrderResolve(i, o))
              => /\ BalancesInFlight(inflight') = BalancesInFlight(inflight)
                 /\ OrdersInFlight(inflight') = OrdersInFlight(inflight) - 1
                 /\ orderData' = orderData
                 /\ ~loading']_vars

\* An order of an edited draft has just failed with nothing else in flight:
\* the draft is still the edited one and the order button is enabled again.
C11_Witness ==
    /\ lastEvent = "orderResolve"
    /\ log = <<LogLine("error", "Order failed:")>>
    /\ inflight = << >>
    /\ orderData.side = "SELL"
    /\ OrderButtonEnabled

LacksBalancesField(o) == ~o.thrown /\ o.body.tag = "object"

\* C15, as claimed: a step in which a balances request is answered without
\* the balances field (lastAnswer' is the answer the step has read) logs
\* nothing and leaves the Balance collection empty.
C15_MissingFieldEmptiesBalances ==
    [][(lastEvent' = "balancesResolve" /\ LacksBalancesField(lastAnswer'))
          => (log' = << >> /\ balances' = << >>)]_vars

\* C15, amended: such a step logs nothing and leaves the Balance collection
\* as it was.
C15_MissingFieldKeepsBalances ==
    [][(lastEvent' = "balancesResolve" /\ LacksBalancesField(lastAnswer'))
          => (log' = << >> /\ balances' = balances)]_vars

\* The latest balances answer had no balances field, and the rows of an
\* earlier answer are still shown.
C15_Witness ==
    /\ lastEvent = "balancesResolve"
    /\ LacksBalancesField(lastAnswer)
    /\ log = << >>
    /\ balances = <<ETH, BTC>>

\* A quantity no order should carry: NaN, zero or negative.
InvalidQuantity(q) == q.t = "NaN" \/ (q.t = "num" /\ q.v <= 0)

\* C16: whenever the order form is shown, no order or connect is pending and
\* the draft quantity is NaN, zero or negative, submit is still possible: it
\* sends an order request.
C16_NoQuantityValidation ==
    (/\ isConnected
     /\ activeTab = "trading"
     /\ ~loading
     /\ clicks < MaxClicks
     /\ InvalidQuantity(orderData.quantity))
        => ENABLED PlaceOrderClick

\* An order has just been submitted with a NaN quantity in the draft.
C16_Witness ==
    /\ lastEvent = "placeOrderClick"
    /\ orderData.quantity = NaN
    /\ OrdersInFlight(inflight) = 1

\* C17: every request in flight, to whichever endpoint, has a user_id in its
\* payload, and that user_id is "default".
C17_UserIdIsDefault ==
    \A k \in 1..Len(inflight) :
        /\ "user_id" \in DOMAIN inflight[k].payload
        /\ inflight[k].payload.user_id = "default"

\* An order request and a balances request are in flight together.
C17_Witness ==
    /\ OrdersInFlight(inflight) = 1
    /\ BalancesInFlight(inflight) >= 1

\* The request a step has sent: the one it appended to the requests in
\* flight.
Sent(before, after) == after[Len(after)]

SendsOne(before, after) ==
    /\ Len(after) = Len(before) + 1
    /\ SubSeq(after, 1, Len(before)) = before

\* A step that edits the order draft.
DraftEdited(event) == event \in {"setSymbol", "setSide", "setQuantity"}

\* C18, as claimed: the order request a submit sends carries the symbol,
\* side, type and quantity of the draft exactly as they are at submission,
\* and an edit of the draft neither changes a request in flight nor sends one.
C18_OrderCarriesDraftExactly ==
    [][/\ lastEvent' = "placeOrderClick" =>
            /\ SendsOne(inflight, inflight')
            /\ Sent(inflight, inflight').endpoint = "/api/binance/order"
            /\ Sent(inflight, inflight').payload.symbol = orderData.symbol
            /\ Sent(inflight, inflight').payload.side = orderData.side
            /\ Sent(inflight, inflight').payload.type = orderData.type
            /\ Sent(inflight, inflight').payload.quantity = orderData.quantity
       /\ DraftEdited(lastEvent') => inflight' = inflight]_vars

\* C18, amended: the quantity is carried as JSON serialises it, a finite
\* quantity unchanged and NaN as null; the rest as claimed.
C18_OrderCarriesDraftAsJson ==
    [][/\ lastEvent' = "placeOrderClick" =>
            /\ SendsOne(inflight, inflight')
            /\ Sent(inflight, inflight').endpoint = "/api/binance/order"
            /\ Sent(inflight, inflight').payload.symbol = orderData.symbol
            /\ Sent(inflight, inflight').payload.side = orderData.side
            /\ Sent(inflight, inflight').payload.type = orderData.type
            /\ Sent(inflight, inflight').payload.quantity =
                   (IF orderData.quantity.t = "NaN"
                    THEN [t |-> "null", v |-> 0]
                    ELSE orderData.quantity)
       /\ DraftEdited(lastEvent') => inflight' = inflight]_vars

\* The draft has just been edited while an order of the earlier draft is in
\* flight: the request still has the symbol it was sent with.
C18_Witness ==
    /\ lastEvent = "setSymbol"
    /\ \E k \in 1..Len(inflight) :
          /\ inflight[k].endpoint = "/api/binance/order"
          /\ inflight[k].payload.symbol # orderData.symbol

\* C19: the first state is Disconnected, with no balances, nothing in flight
\* and loading unset; while a connect request is in flight the session is
\* Connecting (loading set, not Connected); and the only step that makes the
\* session Connected is a connect request answered with HTTP success.
C19_ConnectingUntilOutcome ==
    /\ (~isConnected /\ balances = << >> /\ inflight = << >> /\ ~loading)
    /\ [](ConnectsInFlight(inflight) >= 1 => (loading /\ ~isConnected))
    /\ [][(~isConnected /\ isConnected') =>
            /\ lastEvent' = "connectResolve"
            /\ \A i \in 1..Len(inflight), o \in ConnectOutcomes :
                  ConnectResolve(i, o) => HttpSuccess(o)]_vars

\* Connecting: the connect request is in flight, loading is set, the session
\* is not Connected yet.
C19_Witness ==
    /\ lastEvent = "connectClick"
    /\ ConnectsInFlight(inflight) = 1
    /\ loading
    /\ ~isConnected

\* What an edit of the draft must leave alone: the status, the credentials,
\* the Balance collection, the loading flag and the requests in flight.
EditFrame ==
    /\ isConnected' = isConnected
    /\ apiKey' = apiKey /\ apiSecret' = apiSecret
    /\ balances' = balances
    /\ loading' = loading
    /\ inflight' = inflight

\* C20: a step that edits the symbol, the side or the quantity of the draft
\* changes that field only, leaves the other draft fields, the status, the
\* credentials and the Balance collection as they were, and sends nothing.
C20_EditChangesOneField ==
    [][/\ lastEvent' = "setSymbol" =>
            /\ orderData' = [orderData EXCEPT !.symbol = orderData'.symbol]
            /\ EditFrame
       /\ lastEvent' = "setSide" =>
            /\ orderData' = [orderData EXCEPT !.side = orderData'.side]
            /\ EditFrame
       /\ lastEvent' = "setQuantity" =>
            /\ orderData' = [orderData EXCEPT !.quantity = orderData'.quantity]
            /\ EditFrame]_vars

\* The symbol has just been changed in a draft whose side had been changed
\* before: the side is still the edited one.
C20_Witness ==
    /\ lastEvent = "setSymbol"
    /\ orderData.symbol = "ETHUSDT"
    /\ orderData.side = "SELL"

\* C14: after one click (connect, with apiKey "k" and apiSecret "s") whose
\* balances request has been answered with 200 and the single BTC entry
\* (free "0.5", locked "0.0"), the status is Connected and the Balance
\* collection is exactly one row, for BTC, whose free amount is rendered as
\* 0.50000000.
C14_ScenarioOneBtcRow ==
    (/\ clicks = 1
     /\ apiKey = "k" /\ apiSecret = "s"
     /\ inflight = << >>
     /\ lastAnswer = Outcome(FALSE, 200, Body("balances", <<BTC>>)))
        => /\ isConnected
           /\ Len(balances) = 1
           /\ Len(BalanceRows) = 1
           /\ BalanceRows[1].asset = "BTC"
           /\ BalanceRows[1].free =
                  <<"0", ".", "5", "0", "0", "0", "0", "0", "0", "0">>

\* The end state of the scenario, right after the balances answer.
C14_Witness ==
    /\ lastEvent = "balancesResolve"
    /\ clicks = 1
    /\ apiKey = "k" /\ apiSecret = "s"
    /\ inflight = << >>
    /\ lastAnswer = Outcome(FALSE, 200, Body("balances", <<BTC>>))

\* C12: once every balances request has been answered, the response read
\* last carrying a balances list, the Balance collection is that list,
\* whether the request it answers was issued before or after the others and
\* whether or not they were in flight together.
C12_LastResponseWins ==
    (BalancesInFlight(inflight) = 0 /\ overtaken.carried)
        => balances = overtaken.list

\* An older balances request was answered after a newer one, and the two
\* rows of its response are the collection.
C12_Witness ==
    /\ BalancesInFlight(inflight) = 0
    /\ overtaken.last
    /\ overtaken.carried
    /\ overtaken.list = <<ETH, BTC>>
    /\ balances = <<ETH, BTC>>

\* The values an order may name, as the claims list them.
SupportedOrder(o) ==
    /\ o.symbol \in {"BTCUSDT", "ETHUSDT", "BNBUSDT"}
    /\ o.side \in {"BUY", "SELL"}
    /\ o.type \in {"MARKET", "LIMIT"}

\* C21: the first draft is BTCUSDT / BUY / MARKET / 0.001, and in every
\* reachable state the draft and the payload of every order request in
\* flight name a supported symbol, side and type.
C21_DraftInEnums ==
    /\ orderData = [symbol |-> "BTCUSDT", side |-> "BUY", type |-> "MARKET",
                    quantity |-> [t |-> "num", v |-> 1]]
    /\ [](/\ SupportedOrder(orderData)
          /\ \A k \in 1..Len(inflight) :
                inflight[k].endpoint = "/api/binance/order"
                    => SupportedOrder(inflight[k].payload))

\* An order for the last symbol and side of the lists is in flight.
C21_Witness ==
    /\ lastEvent = "placeOrderClick"
    /\ inflight[Len(inflight)].payload.symbol = "BNBUSDT"
    /\ inflight[Len(inflight)].payload.side = "SELL"
    /\ orderData.symbol = "BNBUSDT"

\* C22: no step changes the type of the draft; in every reachable state the
\* draft type is MARKET and so is the type of every order request in flight.
C22_TypeAlwaysMarket ==
    /\ [][orderData'.type = orderData.type]_vars
    /\ [](/\ orderData.type = "MARKET"
          /\ \A k \in 1..Len(inflight) :
                inflight[k].endpoint = "/api/binance/order"
                    => inflight[k].payload.type = "MARKET")

\* Symbol and side have been edited, and the order sent afterwards is a
\* MARKET order.
C22_Witness ==
    /\ lastEvent = "placeOrderClick"
    /\ orderData.symbol = "ETHUSDT"
    /\ orderData.side = "SELL"
    /\ inflight[Len(inflight)].payload.type = "MARKET"

\* C23: in every reachable state at most one request is in flight among the
\* order and connect requests (so at most one order, and none beside a
\* connect), and while one is in flight loading is set and submit cannot be
\* taken.
C23_OneOrderAtATime ==
    /\ OrdersInFlight(inflight) <= 1
    /\ OrdersInFlight(inflight) + ConnectsInFlight(inflight) <= 1
    /\ (OrdersInFlight(inflight) + ConnectsInFlight(inflight) >= 1)
           => (loading /\ ~ENABLED PlaceOrderClick)

\* An order is in flight on the trading tab, with clicks to spare: submit is
\* refused by the loading flag alone.
C23_Witness ==
    /\ OrdersInFlight(inflight) = 1
    /\ isConnected
    /\ activeTab = "trading"
    /\ clicks < MaxClicks
    /\ loading

\* Number of connect and order requests in flight.
LoadingRequests(s) == ConnectsInFlight(s) + OrdersInFlight(s)

\* C24: every step in which a connect or order request leaves flight (it has
\* received its outcome, whichever it is) ends with loading false, and in
\* every reachable state loading is set only while such a request is in
\* flight.
C24_LoadingResetOnOutcome ==
    /\ [][LoadingRequests(inflight') < LoadingRequests(inflight)
             => ~loading']_vars
    /\ [](loading => LoadingRequests(inflight) >= 1)

\* An order has failed by throwing (network error, or a 2xx answer whose
\* body cannot be parsed) and loading is false again.
C24_Witness ==
    /\ lastEvent = "orderResolve"
    /\ log = <<[level |-> "error", msg |-> "Order failed:"]>>
    /\ ~loading

\* The names under which a request carries the credentials.
CredentialFields == {"api_key", "api_secret"}

\* C25: in every reachable state every request in flight that carries a
\* credential is a connect request: the payload of a balances request is
\* the user id alone, and the payload of an order request is the four
\* fields of the draft and the user id.
C25_CredentialsOnlyInConnect ==
    \A k \in 1..Len(inflight) :
       /\ (DOMAIN inflight[k].payload \cap CredentialFields # {})
              => inflight[k].endpoint = "/api/binance/connect"
       /\ inflight[k].endpoint = "/api/binance/balances"
              => inflight[k].payload = [user_id |-> "default"]
       /\ inflight[k].endpoint = "/api/binance/order"
              => DOMAIN inflight[k].payload
                     = {"symbol", "side", "type", "quantity", "user_id"}

\* With both credentials held in the component's state, an order request
\* and a balances request are in flight.
C25_Witness ==
    /\ apiKey = "k" /\ apiSecret = "s"
    /\ OrdersInFlight(inflight) = 1
    /\ BalancesInFlight(inflight) >= 1

\* C26: in every reachable state that is not Connected the Balance
\* collection is empty and no balances request is in flight, and every step
\* that sends a balances request ends Connected (the connect has succeeded
\* in that step or before it).
C26_BalancesOnlyWhenConnected ==
    /\ [](~isConnected
             => (balances = << >> /\ BalancesInFlight(inflight) = 0))
    /\ [][BalancesInFlight(inflight') > BalancesInFlight(inflight)
             => isConnected']_vars

\* Connected, with rows shown and a further balances request in flight.
C26_Witness ==
    /\ isConnected
    /\ balances # << >>
    /\ BalancesInFlight(inflight) >= 1

\* C27: the page starts on the splash screen, not authenticated; the
\* dashboard is what is rendered only when the splash screen has been
\* dismissed and the authentication has succeeded; the authentication
\* succeeds only once the splash screen is gone; no step brings the splash
\* screen back or takes the authentication away; and a step that changes
\* the language changes neither flag.
C27_SplashThenAuthThenDashboard ==
    /\ (showSplash = TRUE /\ isAuthenticated = FALSE)
    /\ [](Screen(showSplash, isAuthenticated) = "dashboard"
             => (~showSplash /\ isAuthenticated))
    /\ [](isAuthenticated => ~showSplash)
    /\ [][~showSplash => ~showSplash']_vars
    /\ [][isAuthenticated => isAuthenticated']_vars
    /\ [][isArabic' # isArabic
             => (showSplash' = showSplash
                 /\ isAuthenticated' = isAuthenticated)]_vars

\* The Binance tab of the dashboard is shown, in Arabic, to a user who has
\* authenticated.
C27_Witness ==
    /\ ~showSplash
    /\ isAuthenticated
    /\ user = "alice"
    /\ isArabic
    /\ dashboardTab = "binance"

\* The performance dashboard is on screen: the dashboard is shown and its
\* performance tab is the active one.
PerfOpen == ~showSplash /\ isAuthenticated /\ dashboardTab = "performance"

\* C28: while the performance dashboard is on screen a timer is active
\* exactly when live mode is on; never more than one timer is active; a step
\* that turns live mode off clears one timer and a step that turns it on
\* starts one; a step that changes lastUpdate alone (a manual refresh, a
\* timer firing) leaves the timers as they are.
C28_OneTimerIffLive ==
    /\ [](PerfOpen => (intervals >= 1 <=> isLiveMode))
    /\ [](intervals <= 1)
    /\ [][(PerfOpen /\ PerfOpen' /\ isLiveMode /\ ~isLiveMode')
             => intervals' = intervals - 1]_vars
    /\ [][(PerfOpen /\ PerfOpen' /\ ~isLiveMode /\ isLiveMode')
             => intervals' = intervals + 1]_vars
    /\ [][(PerfOpen /\ PerfOpen' /\ isLiveMode' = isLiveMode)
             => intervals' = intervals]_vars

\* Live mode has been turned off, no timer is left, and the time shown is
\* the present one, later than the time of the mount.
C28_Witness ==
    /\ PerfOpen
    /\ ~isLiveMode
    /\ intervals = 0
    /\ now >= 2
    /\ lastUpdate = now

\* The backend has answered, and the route could read the body of the
\* answer to its end.
BackendAnswered(o) == ~o.thrown /\ o.status # 0 /\ o.body.readable

\* C29: once POST has returned after an answer of the backend whose body it
\* could read, a non-2xx answer has been relayed as a response with the
\* same status and the body {error: <the text of the answer>}, and a 2xx
\* answer with a JSON body as a response with status 200 and that JSON
\* value as its body.
C29_RelaysBackendOutcome ==
    (otpPc = "done" /\ BackendAnswered(otpBackend))
        => /\ ~HttpSuccess(otpBackend)
                => /\ otpResponse.status = otpBackend.status
                   /\ otpResponse.json = [error |-> otpBackend.body.text]
           /\ (HttpSuccess(otpBackend) /\ IsJson(otpBackend.body.text))
                => /\ otpResponse.status = 200
                   /\ otpResponse.json = JsonValue(otpBackend.body.text)

\* The backend has answered 201 with a JSON body and the route has answered
\* 200 with the same value.
C29_Witness ==
    /\ otpPc = "done"
    /\ otpBackend.status = 201
    /\ otpBackend.body = [readable |-> TRUE, text |-> "{\"token\":\"t1\"}"]
    /\ otpResponse = [status |-> 200, json |-> [token |-> "t1"]]

\* The body of the request cannot be parsed into the two fields.
RequestMalformed(body) == body.kind \in {"invalid", "null"}

\* The call of the backend went wrong: the backend is unreachable, the body
\* of its answer cannot be read, or its 2xx answer is not JSON.
VerifyFailed(o) ==
    \/ o.thrown
    \/ (o.status # 0 /\ ~o.body.readable)
    \/ (HttpSuccess(o) /\ ~IsJson(o.body.text))

\* C30: POST always ends by returning a response; a request whose body
\* cannot be parsed is answered 500 {error: "Failed to verify OTP"} without
\* any request to the backend, and so is a request whose call of the
\* backend fails (unreachable, unreadable body, 2xx body that is not JSON).
C30_AlwaysAnswers ==
    /\ otpPc = "done" => otpResponse.status \in 200..599
    /\ RequestMalformed(otpRequest) => otpFetch = << >>
    /\ (otpPc = "done"
        /\ (RequestMalformed(otpRequest) \/ VerifyFailed(otpBackend)))
          => /\ otpResponse.status = 500
             /\ otpResponse.json = [error |-> "Failed to verify OTP"]

\* The backend has answered 400 with a body that broke while it was read,
\* and the route has answered 500.
C30_Witness ==
    /\ otpPc = "done"
    /\ otpBackend.status = 400
    /\ ~otpBackend.body.readable
    /\ otpResponse.status = 500
    /\ otpLog # << >>

====
